---------------------------- MODULE Spec2Model ----------------------------
(***************************************************************************)
(* A model of libembeddedhal's generic driver lifecycle (driver.hpp), of   *)
(* its frequency / duty-cycle arithmetic and divider search                *)
(* (frequency.hpp) and of the mock temperature sensor (mock.hpp).          *)
(*                                                                         *)
(* Integer widths are scaled: a std::uint32_t is modelled as an unsigned   *)
(* word of WordBits bits and a 64-bit integer as one of 2 * WordBits bits, *)
(* so that every value of a type can be enumerated and every wrap-around,  *)
(* narrowing and limit comparison of the code happens at the scaled limit. *)
(***************************************************************************)
EXTENDS Integers, Sequences, FiniteSets, TLC

\* Width, in bits, of the model's stand-in for std::uint32_t.
WordBits == 4
\* Largest staged settings value (settings_t is modelled as 0..MaxSetting).
MaxSetting == 2
\* Longest sequence of candidate dividers handed to closest().
MaxDividers == 3
\* Largest denominator of the percents handed to calculate_duty_cycle().
MaxPercentDen == 3
\* Longest queue handed to the mock temperature sensor's set().
MaxQueue == 3
\* Largest temperature queued (microkelvin is modelled as 0..MaxTemperature).
MaxTemperature == 2

RECURSIVE Pow2(_)
Pow2(n) == IF n = 0 THEN 1 ELSE 2 * Pow2(n - 1)

\* std::numeric_limits<std::uint32_t>::max()
UINT32_MAX == Pow2(WordBits) - 1
\* The values of a std::uint32_t.
Uint32 == 0..UINT32_MAX
\* static_cast<std::uint32_t>(x)
ToUint32(x) == x % Pow2(WordBits)

\* The limits and the values of a std::int64_t: twice the width of a
\* std::uint32_t.
INT64_MAX == Pow2(2 * WordBits - 1) - 1
INT64_MIN == -Pow2(2 * WordBits - 1)
Int64 == INT64_MIN..INT64_MAX
\* The conversion of a std::int64_t to std::uint64_t.
ToUint64(x) == x % Pow2(2 * WordBits)
\* The two's complement value a 64-bit signed product wraps to.
WrapInt64(x) ==
    LET u == x % Pow2(2 * WordBits)
    IN  IF u > INT64_MAX THEN u - Pow2(2 * WordBits) ELSE u

VARIABLES
    m_settings,              \* driver::m_settings (staged, mutable)
    m_initialized_settings,  \* driver::m_initialized_settings (committed)
    m_initialized,           \* driver::m_initialized
    last,                    \* the last lifecycle operation and the state it found
    last_commit,             \* settings staged at the last successful initialize()
    c_in,                    \* closest(): its arguments
    c_out,                   \* closest(): <<the position returned>>, <<>> before the call
    call,                    \* a call of an arithmetic function: its name and arguments
    ret,                     \* what that call returned, Pending before it ran
    m_temperatures,          \* mock::temperature_sensor::m_temperatures (a FIFO queue)
    set_queue,               \* the queue handed to the last set(), <<>> if none
    dropped,                 \* how many queued values the last set() found and dropped
    reads                    \* what each read() since the last set() returned

driver_vars == <<m_settings, m_initialized_settings, m_initialized, last, last_commit>>

closest_vars == <<c_in, c_out>>

arith_vars == <<call, ret>>

mock_vars == <<m_temperatures, set_queue, dropped, reads>>

vars == <<driver_vars, closest_vars, arith_vars, mock_vars>>

----------------------------------------------------------------------------
(* driver.hpp: the generic driver lifecycle                                *)

\* The values of settings_t; settings_t{} is the value-initialised one.
Settings == 0..MaxSetting
DefaultSettings == 0

\* Outcomes of the virtual driver_initialize(): success, or an error.
Success == "success"
Errors == {"io_error", "invalid_argument"}
BodyResults == {Success} \cup Errors

\* What an operation found when it was called.
Found(op, body, result) ==
    [op |-> op, body |-> body, ret |-> result,
     settings |-> m_settings,
     committed |-> m_initialized_settings,
     initialized |-> m_initialized]

\* driver(): default member initialisers.
DriverInit ==
    /\ m_settings = DefaultSettings
    /\ m_initialized_settings = DefaultSettings
    /\ m_initialized = FALSE
    /\ last = [op |-> "construct", body |-> "none", ret |-> "none",
               settings |-> DefaultSettings, committed |-> DefaultSettings,
               initialized |-> FALSE]
    /\ last_commit = DefaultSettings

\* A mutant of initialize(): an initialized driver is not committed again.
InitializeOnce(body) ==
    /\ body \in BodyResults
    /\ IF body = Success /\ ~m_initialized
         THEN /\ m_initialized_settings' = m_settings
              /\ m_initialized' = TRUE
              /\ last_commit' = m_settings
         ELSE UNCHANGED <<m_initialized_settings, m_initialized, last_commit>>
    /\ last' = Found("initialize", body, body)
    /\ UNCHANGED <<m_settings, closest_vars, arith_vars, mock_vars>>

\* A mutant of initialize(): the settings are committed before the body ran.
InitializeCommitFirst(body) ==
    /\ body \in BodyResults
    /\ m_initialized_settings' = m_settings
    /\ IF body = Success
         THEN /\ m_initialized' = TRUE
              /\ last_commit' = m_settings
         ELSE UNCHANGED <<m_initialized, last_commit>>
    /\ last' = Found("initialize", body, body)
    /\ UNCHANGED <<m_settings, closest_vars, arith_vars, mock_vars>>

\* initialize(): EMBED_CHECK returns the body's error before anything is
\* assigned; otherwise the staged settings are committed and the flag is set.
Initialize(body) ==
    /\ body \in BodyResults
    /\ IF body # Success
         THEN /\ UNCHANGED <<m_initialized_settings, m_initialized, last_commit>>
              /\ last' = Found("initialize", body, body)
         ELSE /\ m_initialized_settings' = m_settings
              /\ m_initialized' = TRUE
              /\ last_commit' = m_settings
              /\ last' = Found("initialize", body, Success)
    /\ UNCHANGED <<m_settings, closest_vars, arith_vars, mock_vars>>

\* A mutant of set_as_uninitialized(): the committed settings are reset too.
SetAsUninitializedAndClear ==
    /\ m_initialized' = FALSE
    /\ m_initialized_settings' = DefaultSettings
    /\ last' = Found("set_as_uninitialized", "none", "none")
    /\ UNCHANGED <<m_settings, last_commit,
                   closest_vars, arith_vars, mock_vars>>

\* set_as_uninitialized()
SetAsUninitialized ==
    /\ m_initialized' = FALSE
    /\ last' = Found("set_as_uninitialized", "none", "none")
    /\ UNCHANGED <<m_settings, m_initialized_settings, last_commit,
                   closest_vars, arith_vars, mock_vars>>

\* settings() = v: a write through the reference to the staged settings.
SettingsWrite(v) ==
    /\ v \in Settings
    /\ m_settings' = v
    /\ last' = Found("settings", "none", "none")
    /\ UNCHANGED <<m_initialized_settings, m_initialized, last_commit,
                   closest_vars, arith_vars, mock_vars>>

\* is_initialized()
is_initialized == m_initialized
\* initialized_settings()
initialized_settings == m_initialized_settings

----------------------------------------------------------------------------
(* math.hpp: the integer primitives frequency.hpp builds on                *)

Abs(x) == IF x < 0 THEN -x ELSE x

\* rounding_division(numerator, denominator): the quotient rounded to the
\* nearest integer, a tie rounded away from zero; denominator # 0.
rounding_division(p_numerator, p_denominator) ==
    LET n == Abs(p_numerator)
        d == Abs(p_denominator)
        q == (2 * n + d) \div (2 * d)
    IN  IF (p_numerator < 0) # (p_denominator < 0) THEN -q ELSE q

\* distance(a, b): the unsigned absolute difference.
distance(p_left, p_right) ==
    IF p_left > p_right THEN p_left - p_right ELSE p_right - p_left

\* absolute_value(v): v made non-negative; the magnitude of the most
\* negative value is not representable and becomes the largest value.
absolute_value(p_value) ==
    IF p_value = INT64_MIN THEN INT64_MAX ELSE Abs(p_value)

\* multiply(a, b): the product, or an Overflow failure when the product
\* exceeds the range of the result type.
multiply(p_lhs, p_rhs) ==
    IF p_lhs * p_rhs > UINT32_MAX
      THEN [kind |-> "error", error |-> "overflow"]
      ELSE [kind |-> "value", value |-> p_lhs * p_rhs]

----------------------------------------------------------------------------
(* percent.hpp: a ratio in [0, 1]                                          *)

\* percent::from_ratio(numerator, denominator)
from_ratio(p_numerator, p_denominator) ==
    [kind |-> "percent", num |-> p_numerator, den |-> p_denominator]

\* operator*(value, percent): the value scaled by the percent, floored.
PercentScale(p_value, p_percent) ==
    (p_value * p_percent.num) \div p_percent.den

\* The percents in [0, 1] with a denominator up to MaxPercentDen.
Percents ==
    UNION {{from_ratio(n, d) : n \in 0..d} : d \in 1..MaxPercentDen}

----------------------------------------------------------------------------
(* frequency.hpp: frequency / integer and the divider search closest()     *)

\* A mutant of operator/(frequency, uint32_t): the quotient is truncated.
FrequencyDivTruncating(p_lhs, p_rhs) == p_lhs \div p_rhs

\* operator/(const frequency&, std::uint32_t)
FrequencyDiv(p_lhs, p_rhs) == rounding_division(p_lhs, p_rhs)

\* enum class divider_rule
DividerRules == {"higher", "lower", "closest"}

\* The lambda cost of closest().
cost(p_candidate, p_target) == distance(p_candidate, p_target)

\* The lambda is_applicable of closest().
is_applicable(p_candidate, p_target, p_divider_rule) ==
    CASE p_divider_rule = "lower" -> p_candidate <= p_target
      [] p_divider_rule = "higher" -> p_candidate >= p_target
      [] p_divider_rule = "closest" -> TRUE
      [] OTHER -> FALSE

\* A mutant of the loop of closest(): a candidate of equal cost replaces the
\* best one (<= for <).
RECURSIVE ClosestLoopLastWins(_, _, _, _, _, _, _)
ClosestLoopLastWins(it, best, best_cost, p_source, dividers, p_target, p_divider_rule) ==
    IF it = Len(dividers) + 1
      THEN best
      ELSE LET candidate == FrequencyDiv(p_source, dividers[it])
           IN  IF /\ is_applicable(candidate, p_target, p_divider_rule)
                  /\ cost(candidate, p_target) <= best_cost
                 THEN ClosestLoopLastWins(it + 1, it, cost(candidate, p_target),
                                          p_source, dividers, p_target, p_divider_rule)
                 ELSE ClosestLoopLastWins(it + 1, best, best_cost,
                                          p_source, dividers, p_target, p_divider_rule)

\* The loop of closest() from position it on; positions are 1..Len(dividers)
\* and p_last is Len(dividers) + 1.
RECURSIVE ClosestLoop(_, _, _, _, _, _, _)
ClosestLoop(it, best, best_cost, p_source, dividers, p_target, p_divider_rule) ==
    IF it = Len(dividers) + 1
      THEN best
      ELSE LET candidate == FrequencyDiv(p_source, dividers[it])
           IN  IF /\ is_applicable(candidate, p_target, p_divider_rule)
                  /\ cost(candidate, p_target) < best_cost
                 THEN ClosestLoop(it + 1, it, cost(candidate, p_target),
                                  p_source, dividers, p_target, p_divider_rule)
                 ELSE ClosestLoop(it + 1, best, best_cost,
                                  p_source, dividers, p_target, p_divider_rule)

\* closest(p_source, p_first, p_last, p_target, p_divider_rule): best starts
\* at p_last and best_cost at the largest uint32_t.
closest(p_source, dividers, p_target, p_divider_rule) ==
    ClosestLoop(1, Len(dividers) + 1, UINT32_MAX,
                p_source, dividers, p_target, p_divider_rule)

\* The divider tables searched: sequences of non-zero dividers.
DividerTable == {1, 2, 4}
DividerSeqs == UNION {[1..n -> DividerTable] : n \in 0..MaxDividers}

\* Before the call c_out is empty; after it c_out holds the position.
ClosestReturned == c_out # <<>>
c_position == c_out[1]

\* No call of closest() is in progress.
ClosestIdle ==
    /\ c_in = [p_source |-> 0, dividers |-> <<>>, p_target |-> 0,
               p_divider_rule |-> "closest"]
    /\ c_out = <<>>

\* The arguments of a call of closest().
ClosestInputs ==
    /\ c_in \in [p_source : Uint32, dividers : DividerSeqs, p_target : Uint32,
                 p_divider_rule : DividerRules]
    /\ c_out = <<>>

\* The call of closest() on the arguments drawn.
ClosestCall ==
    /\ c_out = <<>>
    /\ c_out' = <<closest(c_in.p_source, c_in.dividers, c_in.p_target,
                          c_in.p_divider_rule)>>
    /\ UNCHANGED <<c_in, driver_vars, arith_vars, mock_vars>>

----------------------------------------------------------------------------
(* frequency.hpp: scaling, duty cycles and cycle counts                    *)

\* operator/(const frequency& p_source, const frequency& p_target)
FrequencyPerFrequency(p_source, p_target) ==
    rounding_division(p_source, p_target)

\* A mutant of operator*(frequency, Integer): the product wraps.
FrequencyTimesWrapping(p_source, p_scalar) ==
    [kind |-> "frequency", value_hz |-> ToUint32(p_source * p_scalar)]

\* operator*(const frequency&, Integer): BOOST_LEAF_CHECK returns the
\* failure of multiply(), or the product becomes the frequency.
FrequencyTimes(p_source, p_scalar) ==
    LET product == multiply(p_source, p_scalar)
    IN  IF product.kind = "error"
          THEN product
          ELSE [kind |-> "frequency", value_hz |-> product.value]

\* A mutant of calculate_duty_cycle(cycles, percent): high is taken from
\* cycles twice.
calculate_duty_cycle_low_short(p_cycles, p_percent) ==
    LET high == ToUint32(PercentScale(p_cycles, p_percent))
    IN  [kind |-> "duty_cycle", high |-> high,
         low |-> ToUint32(p_cycles - high - high)]

\* calculate_duty_cycle(std::uint32_t p_cycles, percent p_percent)
calculate_duty_cycle(p_cycles, p_percent) ==
    LET high == ToUint32(PercentScale(p_cycles, p_percent))
        low == ToUint32(p_cycles - high)
    IN  [kind |-> "duty_cycle", high |-> high, low |-> low]

\* A mutant of duty_cycle::operator percent: the halving is left out.
duty_cycle_to_percent_unscaled(high, low) ==
    from_ratio(high, ToUint32(high + low))

\* duty_cycle::operator percent(): the arguments handed to
\* percent::from_ratio.
duty_cycle_to_percent(high, low) ==
    LET overflow_total == high + low
    IN  IF overflow_total > UINT32_MAX
          THEN from_ratio(high \div 2, ToUint32(overflow_total \div 2))
          ELSE from_ratio(high, ToUint32(overflow_total))

\* hal::time_duration::period: num / den seconds per tick; den is the
\* 1,000,000,000 of std::nano at the model's width.
PeriodNum == 1
PeriodDen == 4

\* The outcomes of a signed 64-bit product: the product when it is in range;
\* when it is not the behaviour is undefined, and a build either wraps it or
\* traps.
SignedProductOutcomes(product) ==
    IF product \in Int64
      THEN {[trap |-> FALSE, value |-> product]}
      ELSE {[trap |-> FALSE, value |-> WrapInt64(product)],
            [trap |-> TRUE, value |-> 0]}

\* cycles_per(p_source, p_duration): the outcomes of the call.
cycles_per(p_source, p_duration) ==
    LET duration == absolute_value(p_duration)
    IN  {IF count.trap
           THEN count
           ELSE [trap |-> FALSE,
                 value |-> rounding_division(count.value, PeriodDen)] :
         count \in SignedProductOutcomes(duration * p_source * PeriodNum)}

\* calculate_duty_cycle(p_source_clock, p_duration, p_percent) from the
\* value cycles_per() returned on.
calculate_duty_cycle_of_count(cycle_count, p_percent) ==
    LET cycles == ToUint64(cycle_count)
    IN  IF cycles > UINT32_MAX
          THEN [kind |-> "error", error |-> "value_too_large"]
          ELSE calculate_duty_cycle(ToUint32(cycles), p_percent)

Pending == [kind |-> "pending"]

\* No arithmetic call is in progress.
ArithIdle ==
    /\ call = [op |-> "none"]
    /\ ret = Pending

\* The arguments of one call of an arithmetic function.
ArithInputs ==
    /\ call \in
          [op : {"frequency_times"}, p_source : Uint32, p_scalar : Uint32]
          \cup [op : {"frequency_div"}, p_lhs : Uint32, p_rhs : Uint32 \ {0}]
          \cup [op : {"frequency_per_frequency"}, p_source : Uint32,
                p_target : Uint32 \ {0}]
          \cup [op : {"calculate_duty_cycle"}, p_cycles : Uint32,
                p_percent : Percents]
          \cup [op : {"duty_cycle_to_percent"}, high : Uint32, low : Uint32]
          \cup [op : {"calculate_duty_cycle_duration"}, p_source_clock : Uint32,
                p_duration : Int64, p_percent : Percents]
          \cup [op : {"cycles_per"}, p_source : Uint32, p_duration : Int64]
    /\ ret = Pending

Returns(value) ==
    /\ ret = Pending
    /\ ret' = value
    /\ UNCHANGED <<call, driver_vars, closest_vars, mock_vars>>

CallFrequencyTimes ==
    /\ call.op = "frequency_times"
    /\ Returns(FrequencyTimes(call.p_source, call.p_scalar))

CallFrequencyDiv ==
    /\ call.op = "frequency_div"
    /\ Returns([kind |-> "frequency",
                value_hz |-> FrequencyDiv(call.p_lhs, call.p_rhs)])

CallFrequencyPerFrequency ==
    /\ call.op = "frequency_per_frequency"
    /\ Returns([kind |-> "uint32",
                value |-> FrequencyPerFrequency(call.p_source, call.p_target)])

CallCalculateDutyCycle ==
    /\ call.op = "calculate_duty_cycle"
    /\ Returns(calculate_duty_cycle(call.p_cycles, call.p_percent))

CallDutyCycleToPercent ==
    /\ call.op = "duty_cycle_to_percent"
    /\ Returns(duty_cycle_to_percent(call.high, call.low))

CallCalculateDutyCycleDuration ==
    /\ call.op = "calculate_duty_cycle_duration"
    /\ \E count \in cycles_per(call.p_source_clock, call.p_duration) :
          IF count.trap
            THEN Returns([kind |-> "trap"])
            ELSE Returns(calculate_duty_cycle_of_count(count.value,
                                                       call.p_percent))

CallCyclesPer ==
    /\ call.op = "cycles_per"
    /\ \E count \in cycles_per(call.p_source, call.p_duration) :
          IF count.trap
            THEN Returns([kind |-> "trap"])
            ELSE Returns([kind |-> "int64", value |-> count.value])

----------------------------------------------------------------------------
(* temperature/mock.hpp: the mock temperature sensor                       *)

\* The values of microkelvin queued, and the queues handed to set().
Temperatures == 0..MaxTemperature
TemperatureQueues == UNION {[1..n -> Temperatures] : n \in 0..MaxQueue}

\* temperature_sensor(): std::queue<microkelvin> m_temperatures{}.
MockInit ==
    /\ m_temperatures = <<>>
    /\ set_queue = <<>>
    /\ dropped = 0
    /\ reads = <<>>

\* A mutant of set(): the new values are queued behind the remaining ones.
MockSetAppends(p_temperatures) ==
    /\ p_temperatures \in TemperatureQueues
    /\ Len(m_temperatures) + Len(p_temperatures) <= 2 * MaxQueue
    /\ m_temperatures' = m_temperatures \o p_temperatures
    /\ set_queue' = p_temperatures
    /\ dropped' = Len(m_temperatures)
    /\ reads' = <<>>
    /\ UNCHANGED <<driver_vars, closest_vars, arith_vars>>

\* set(p_temperatures): m_temperatures = p_temperatures.
MockSet(p_temperatures) ==
    /\ p_temperatures \in TemperatureQueues
    /\ m_temperatures' = p_temperatures
    /\ set_queue' = p_temperatures
    /\ dropped' = Len(m_temperatures)
    /\ reads' = <<>>
    /\ UNCHANGED <<driver_vars, closest_vars, arith_vars>>

\* read(), which returns driver_read(): an out_of_range error on an empty
\* queue, otherwise the front value, which is popped. The model stops
\* reading MaxQueue + 2 reads after a set().
MockRead ==
    /\ Len(reads) < MaxQueue + 2
    /\ IF Len(m_temperatures) = 0
         THEN /\ reads' = Append(reads, [kind |-> "error",
                                         error |-> "out_of_range"])
              /\ UNCHANGED m_temperatures
         ELSE /\ reads' = Append(reads, [kind |-> "value",
                                         value |-> Head(m_temperatures)])
              /\ m_temperatures' = Tail(m_temperatures)
    /\ UNCHANGED <<set_queue, dropped, driver_vars, closest_vars, arith_vars>>

----------------------------------------------------------------------------
(* The specifications                                                      *)

\* The driver lifecycle.
Init == DriverInit /\ ClosestIdle /\ ArithIdle /\ MockInit

Next ==
    \/ \E body \in BodyResults : Initialize(body)
    \/ SetAsUninitialized
    \/ \E v \in Settings : SettingsWrite(v)

Spec == Init /\ [][Next]_vars

\* closest() on every argument list within the bounds.
ClosestInit == DriverInit /\ ClosestInputs /\ ArithIdle /\ MockInit

ClosestNext == ClosestCall

ClosestSpec == ClosestInit /\ [][ClosestNext]_vars

\* The arithmetic functions on every argument list within the bounds.
ArithInit == DriverInit /\ ClosestIdle /\ ArithInputs /\ MockInit

ArithNext ==
    \/ CallFrequencyTimes
    \/ CallFrequencyDiv
    \/ CallFrequencyPerFrequency
    \/ CallCalculateDutyCycle
    \/ CallDutyCycleToPercent
    \/ CallCalculateDutyCycleDuration
    \/ CallCyclesPer

ArithSpec == ArithInit /\ [][ArithNext]_vars

\* The mock temperature sensor.
MockNext ==
    \/ \E p_temperatures \in TemperatureQueues : MockSet(p_temperatures)
    \/ MockRead

MockSpec == Init /\ [][MockNext]_vars

----------------------------------------------------------------------------
(* Claims about the driver lifecycle, checked under Spec                   *)

C3_Inv ==
    /\ initialized_settings = last_commit
    /\ last.op = "construct" => initialized_settings = DefaultSettings
    /\ last.op = "set_as_uninitialized" =>
          /\ ~is_initialized
          /\ initialized_settings = last.committed
          /\ m_settings = last.settings
    /\ last.op = "settings" =>
          /\ initialized_settings = last.committed
          /\ is_initialized = last.initialized

\* The step part of C3: a step that changes initialized_settings() is a
\* successful initialize().
C3_Step ==
    m_initialized_settings' # m_initialized_settings =>
        /\ last'.op = "initialize" /\ last'.body = Success
        /\ m_initialized_settings' = m_settings

\* C3: initialized_settings() changes only in a successful initialize();
\* set_as_uninitialized() makes is_initialized() FALSE from either state and
\* leaves the committed and the staged settings unchanged, and a mutation of
\* the staged settings leaves the committed ones unchanged.
C3_CommitOnlyOnSuccessfulInitialize == []C3_Inv /\ [][C3_Step]_vars

\* C3 witness: set_as_uninitialized() on an initialized driver holding a
\* non-default commit, with different settings staged.
C3_Witness ==
    /\ last.op = "set_as_uninitialized"
    /\ last.initialized /\ ~is_initialized
    /\ initialized_settings # DefaultSettings
    /\ m_settings # initialized_settings

----------------------------------------------------------------------------
(* Claims about closest(), checked under ClosestSpec                       *)

\* The candidate frequency source / divider at position i.
C4_Candidate(i) == FrequencyDiv(c_in.p_source, c_in.dividers[i])

\* Eligibility under the rule, as the claim states it.
C4_Eligible(i) ==
    \/ c_in.p_divider_rule = "closest"
    \/ c_in.p_divider_rule = "lower" /\ C4_Candidate(i) <= c_in.p_target
    \/ c_in.p_divider_rule = "higher" /\ C4_Candidate(i) >= c_in.p_target

\* The cost of the candidate at position i: |candidate - target|.
C4_Cost(i) == Abs(C4_Candidate(i) - c_in.p_target)

C4_Positions == 1..Len(c_in.dividers)

C4_PLast == Len(c_in.dividers) + 1

\* The claim's example at the model's width: source 12 and dividers
\* <<1, 2, 4>> give the candidates 12, 6 and 3; for the target 4 the rules
\* closest and lower select the last divider and higher the one before it.
C4_Example(rule, position) ==
    c_in = [p_source |-> 12, dividers |-> <<1, 2, 4>>, p_target |-> 4,
            p_divider_rule |-> rule] => c_position = position

\* C4: when closest() returns a position inside the sequence, the candidate
\* there is eligible under the rule, no eligible candidate costs less, and
\* no eligible candidate at an earlier position costs the same.
C4_ReturnsFirstBestEligible ==
    (ClosestReturned /\ c_position \in C4_Positions) =>
        /\ C4_Eligible(c_position)
        /\ \A i \in C4_Positions :
              C4_Eligible(i) => C4_Cost(c_position) <= C4_Cost(i)
        /\ \A i \in 1..(c_position - 1) :
              C4_Eligible(i) => C4_Cost(i) # C4_Cost(c_position)
        /\ C4_Example("closest", 3) /\ C4_Example("lower", 3)
        /\ C4_Example("higher", 2)

\* C4 witness: source 8 and dividers <<1, 2, 4>> give the candidates 8, 4
\* and 2; for the target 3 the last two tie at cost 1 and the earlier one,
\* divider 2, is returned.
C4_Witness ==
    /\ c_in = [p_source |-> 8, dividers |-> <<1, 2, 4>>, p_target |-> 3,
               p_divider_rule |-> "closest"]
    /\ c_out = <<2>>
    /\ C4_Cost(2) = C4_Cost(3)

\* C5: closest() returns p_last exactly when the sequence is empty or no
\* candidate is eligible under the rule.
C5_PLastIffNoEligible ==
    ClosestReturned =>
        (c_position = C4_PLast <=> ~ \E i \in C4_Positions : C4_Eligible(i))

----------------------------------------------------------------------------
(* Claims about the arithmetic functions, checked under ArithSpec          *)

\* The call named op has returned.
Returned(op) == call.op = op /\ ret.kind # "pending"

\* C6: calculate_duty_cycle(total_cycles, percent) returns
\* high = floor(total_cycles * percent) and low = total_cycles - high, with
\* high <= total_cycles and high + low = total_cycles; (10, 1/2) gives
\* {5, 5} and (10, 1/3) gives {3, 7}.
C6_DutyCycleSplitsTotal ==
    Returned("calculate_duty_cycle") =>
        LET total == call.p_cycles
            n == call.p_percent.num
            d == call.p_percent.den
        IN  /\ ret.kind = "duty_cycle"
            /\ ret.high * d <= total * n
            /\ total * n < (ret.high + 1) * d
            /\ ret.high <= total
            /\ ret.low = total - ret.high
            /\ ret.high + ret.low = total
            /\ (total = 10 /\ n = 1 /\ d = 2) => (ret.high = 5 /\ ret.low = 5)
            /\ (total = 10 /\ n = 1 /\ d = 3) => (ret.high = 3 /\ ret.low = 7)

\* C6 witness: calculate_duty_cycle(10, 1/3) has returned {3, 7}.
C6_Witness ==
    /\ Returned("calculate_duty_cycle")
    /\ call.p_cycles = 10 /\ call.p_percent = from_ratio(1, 3)
    /\ ret.high = 3 /\ ret.low = 7

\* The cycle count of a duration at a frequency: |duration| * frequency *
\* num / den rounded to the nearest integer.
C7_CycleCount ==
    LET product == Abs(call.p_duration) * call.p_source_clock * PeriodNum
    IN  (2 * product + PeriodDen) \div (2 * PeriodDen)

\* C7: calculate_duty_cycle(source_frequency, duration, percent) returns a
\* value_too_large failure whenever the cycle count of the duration does
\* not fit in a uint32_t, and otherwise the duty cycle of that count, whose
\* high + low is the count.
C7_DurationDutyCycleRangeChecked ==
    (Returned("calculate_duty_cycle_duration") /\ ret.kind # "trap") =>
        IF C7_CycleCount > UINT32_MAX
          THEN ret.kind = "error" /\ ret.error = "value_too_large"
          ELSE /\ ret.kind = "duty_cycle"
               /\ ret = calculate_duty_cycle(C7_CycleCount, call.p_percent)
               /\ ret.high + ret.low = C7_CycleCount

\* C8: frequency * scalar returns the frequency of the exact product when
\* the product fits the frequency's value, and an Overflow failure when it
\* does not; never the product wrapped.
C8_ScaleUpChecked ==
    Returned("frequency_times") =>
        IF call.p_source * call.p_scalar <= UINT32_MAX
          THEN /\ ret.kind = "frequency"
               /\ ret.value_hz = call.p_source * call.p_scalar
          ELSE /\ ret.kind = "error"
               /\ ret.error = "overflow"

\* C8 witness: a product that does not fit, and whose wrapped value is not
\* zero, has returned the failure.
C8_Witness ==
    /\ Returned("frequency_times")
    /\ call.p_source * call.p_scalar > UINT32_MAX
    /\ ToUint32(call.p_source * call.p_scalar) # 0
    /\ ret.kind = "error"

\* q is the integer nearest to n / d, a tie rounded away from zero (n >= 0
\* and d > 0).
C9_Nearest(q, n, d) ==
    /\ 2 * q * d - d <= 2 * n
    /\ 2 * n < 2 * q * d + d
    /\ (2 * (n % d) >= d) => q # n \div d

\* C9: frequency / divisor and frequency / frequency are the integer nearest
\* to the exact quotient, ties rounded away from zero (5 / 2 = 3,
\* 4 / 2 = 2); never the truncated quotient when the remainder is at least
\* half the divisor.
C9_DivisionRoundsToNearest ==
    /\ Returned("frequency_div") =>
          /\ ret.kind = "frequency"
          /\ C9_Nearest(ret.value_hz, call.p_lhs, call.p_rhs)
          /\ (call.p_lhs = 5 /\ call.p_rhs = 2) => ret.value_hz = 3
          /\ (call.p_lhs = 4 /\ call.p_rhs = 2) => ret.value_hz = 2
    /\ Returned("frequency_per_frequency") =>
          /\ ret.kind = "uint32"
          /\ C9_Nearest(ret.value, call.p_source, call.p_target)

\* C9 witness: 5 / 2 has returned 3, where truncation gives 2.
C9_Witness ==
    /\ Returned("frequency_div")
    /\ call.p_lhs = 5 /\ call.p_rhs = 2
    /\ ret.value_hz = 3
    /\ ret.value_hz # call.p_lhs \div call.p_rhs

\* C10 as stated: the ratio is high / (high + low) when high + low fits in
\* 32 bits; otherwise the numerator is high >> 1 and the denominator is the
\* sum of the halved operands; the denominator fits in 32 bits and the
\* numerator does not exceed it.
C10_HalvesBothOperands ==
    Returned("duty_cycle_to_percent") =>
        /\ IF call.high + call.low <= UINT32_MAX
             THEN ret.num = call.high /\ ret.den = call.high + call.low
             ELSE /\ ret.num = call.high \div 2
                  /\ ret.den = (call.high \div 2) + (call.low \div 2)
        /\ ret.den <= UINT32_MAX
        /\ ret.num <= ret.den

\* C10 amended: the ratio is high / (high + low) when high + low fits in 32
\* bits; otherwise the numerator is high >> 1 and the denominator is the
\* 64-bit sum high + low shifted right by one, which is the sum of the
\* halved operands, plus one when both operands are odd; the denominator
\* fits in 32 bits and the numerator does not exceed it.
C10_HalvesHighAndSum ==
    Returned("duty_cycle_to_percent") =>
        /\ IF call.high + call.low <= UINT32_MAX
             THEN ret.num = call.high /\ ret.den = call.high + call.low
             ELSE /\ ret.num = call.high \div 2
                  /\ ret.den = (call.high + call.low) \div 2
                  /\ ret.den = (call.high \div 2) + (call.low \div 2)
                       + (IF call.high % 2 = 1 /\ call.low % 2 = 1 THEN 1 ELSE 0)
        /\ ret.den <= UINT32_MAX
        /\ ret.num <= ret.den

\* C10 witness: two odd operands whose sum does not fit have been converted.
C10_Witness ==
    /\ Returned("duty_cycle_to_percent")
    /\ call.high + call.low > UINT32_MAX
    /\ call.high % 2 = 1 /\ call.low % 2 = 1
    /\ ret.num = call.high \div 2
    /\ ret.den = (call.high \div 2) + (call.low \div 2) + 1

\* The product cycles_per forms: |duration| * frequency_hz * ratio_num.
C11_Product == Abs(call.p_duration) * call.p_source * PeriodNum

\* C11: cycles_per returns the non-negative value |duration| * frequency_hz
\* * ratio_num / ratio_den rounded to the nearest integer, the same for a
\* duration and its negation, and the intermediate product never exceeds
\* the signed 64-bit range. Stated for the durations that have a negation
\* (every one but the most negative), which is where the code decides it.
C11_CyclesPerExactWithoutOverflow ==
    (Returned("cycles_per") /\ ret.kind # "trap"
       /\ call.p_duration # INT64_MIN) =>
        /\ C11_Product <= INT64_MAX
        /\ ret.value >= 0
        /\ ret.value = (2 * C11_Product + PeriodDen) \div (2 * PeriodDen)

----------------------------------------------------------------------------
(* Claims about the mock temperature sensor, checked under MockSpec        *)

\* C12: after set(q) the successive read() calls return the values of q in
\* FIFO order, each once; every read() on an empty queue (before any set(),
\* or after Len(q) reads) returns an out_of_range error and leaves the queue
\* empty; a set() replaces the values still queued.
C12_ReadsAreFifoThenOutOfRange ==
    LET n == Len(set_queue)
        taken == IF Len(reads) < n THEN Len(reads) ELSE n
    IN  /\ \A i \in 1..Len(reads) :
              IF i <= n
                THEN reads[i].kind = "value" /\ reads[i].value = set_queue[i]
                ELSE reads[i].kind = "error" /\ reads[i].error = "out_of_range"
        /\ m_temperatures = SubSeq(set_queue, taken + 1, n)
        /\ Len(reads) >= n => m_temperatures = <<>>

\* C12 witness: a set() of two different values that dropped a value still
\* queued, followed by two reads of them and a read that failed.
C12_Witness ==
    /\ dropped > 0
    /\ Len(set_queue) = 2 /\ set_queue[1] # set_queue[2]
    /\ Len(reads) = 3
    /\ reads[1].kind = "value" /\ reads[1].value = set_queue[1]
    /\ reads[2].kind = "value" /\ reads[2].value = set_queue[2]
    /\ reads[3].kind = "error"
    /\ m_temperatures = <<>>

=============================================================================
